---------------------------- MODULE Spec2Model ----------------------------
(***************************************************************************)
(* A model of the HA Scene Generator (src/app/src/App.tsx): the colour     *)
(* conversions, the pixel sampler, the sampling session kept in React      *)
(* state (lights, selectedLights, samples, dragging, status) and the       *)
(* createScene request sequence.                                           *)
(*                                                                         *)
(* Numbers.  JavaScript numbers are IEEE doubles.  The colour functions    *)
(* are modelled with exact rationals <<numerator, denominator>>: every     *)
(* intermediate value of rgbToHsl / hslToRgb / normalizeColor is a         *)
(* rational function of the 8-bit inputs.  A double carries a rounding     *)
(* error of about 1e-16 relative, which changes a result only where the    *)
(* exact value sits on a discontinuity: Math.round at an exact tie (the    *)
(* double of 139.5 may be 139.49999999999997, as for normalizeColor(0, 0,  *)
(* 30)) and the comparison s < 40 at exactly 40.  There the functions take *)
(* the side on which the double falls as an input, and the actions try     *)
(* both sides.  The other comparisons select between expressions that      *)
(* agree at the threshold, or compare values that are never equal for      *)
(* 8-bit inputs.  Coordinates are fixed-point numbers in units of 1/SCALE. *)
(***************************************************************************)
EXTENDS Integers, Sequences, FiniteSets, TLC

(***************************************************************************)
(* Exact rational arithmetic standing for the double arithmetic.           *)
(***************************************************************************)
Abs(a) == IF a < 0 THEN -a ELSE a

RECURSIVE GCD(_, _)
GCD(a, b) == IF b = 0 THEN a ELSE GCD(b, a % b)

\* n/d in lowest terms with a positive denominator
Rat(n, d) ==
    LET g == GCD(Abs(n), Abs(d))
        s == IF d < 0 THEN -1 ELSE 1
    IN  <<(s * n) \div g, (s * d) \div g>>

RInt(n) == <<n, 1>>

RAdd(a, b) ==
    LET g == GCD(a[2], b[2])
    IN  Rat(a[1] * (b[2] \div g) + b[1] * (a[2] \div g), (a[2] \div g) * b[2])

RNeg(a) == <<-a[1], a[2]>>

RSub(a, b) == RAdd(a, RNeg(b))

RMul(a, b) ==
    LET g1 == GCD(Abs(a[1]), b[2])
        g2 == GCD(Abs(b[1]), a[2])
    IN  <<(a[1] \div g1) * (b[1] \div g2), (a[2] \div g2) * (b[2] \div g1)>>

RInv(a) == IF a[1] < 0 THEN <<-a[2], -a[1]>> ELSE <<a[2], a[1]>>

RDiv(a, b) == RMul(a, RInv(b))

RLt(a, b) == a[1] * b[2] < b[1] * a[2]

RMinOf(a, b) == IF RLt(b, a) THEN b ELSE a

RMaxOf(a, b) == IF RLt(a, b) THEN b ELSE a

\* Math.floor
Floor(a) == a[1] \div a[2]

\* Math.round: the nearest integer, a tie going up.  below: the double that
\* stands for an exact tie lies below it, and is rounded down
MathRound(a, below) ==
    LET up == RAdd(a, <<1, 2>>)
    IN  IF below /\ up[2] = 1 THEN up[1] - 1 ELSE Floor(up)

\* the sides on which the doubles of the three channels can fall in hslToRgb
RoundSides == [1..3 -> BOOLEAN]

\* the same with, first, the side of the saturation in normalizeColor
NormalizeSides == [1..4 -> BOOLEAN]

(***************************************************************************)
(* Colour space converter and normalizer.                                  *)
(***************************************************************************)
\* data.data[idx] read past the end of the pixel array: JavaScript's undefined
Undefined == -1

\* the NaN that arithmetic on undefined channels yields
NaN == -2

\* rgbToHsl on numbers; the result is <<h*360, s*100, l*100>>
rgbToHsl(r0, g0, b0) ==
    LET r == Rat(r0, 255)
        g == Rat(g0, 255)
        b == Rat(b0, 255)
        max == RMaxOf(RMaxOf(r, g), b)
        min == RMinOf(RMinOf(r, g), b)
        l == RDiv(RAdd(max, min), RInt(2))
        d == RSub(max, min)
        s == IF max = min THEN RInt(0)
             ELSE IF RLt(<<1, 2>>, l)
                  THEN RDiv(d, RSub(RSub(RInt(2), max), min))
                  ELSE RDiv(d, RAdd(max, min))
        h == IF max = min THEN RInt(0)
             ELSE IF max = r
                  THEN RDiv(RAdd(RDiv(RSub(g, b), d),
                                 RInt(IF RLt(g, b) THEN 6 ELSE 0)), RInt(6))
             ELSE IF max = g
                  THEN RDiv(RAdd(RDiv(RSub(b, r), d), RInt(2)), RInt(6))
             ELSE RDiv(RAdd(RDiv(RSub(r, g), d), RInt(4)), RInt(6))
    IN  <<RMul(h, RInt(360)), RMul(s, RInt(100)), RMul(l, RInt(100))>>

hue2rgb(p, q, t0) ==
    LET t1 == IF RLt(t0, RInt(0)) THEN RAdd(t0, RInt(1)) ELSE t0
        t  == IF RLt(RInt(1), t1) THEN RSub(t1, RInt(1)) ELSE t1
    IN  IF RLt(t, <<1, 6>>)
        THEN RAdd(p, RMul(RMul(RSub(q, p), RInt(6)), t))
        ELSE IF RLt(t, <<1, 2>>)
        THEN q
        ELSE IF RLt(t, <<2, 3>>)
        THEN RAdd(p, RMul(RMul(RSub(q, p), RSub(<<2, 3>>, t)), RInt(6)))
        ELSE p

\* hslToRgb with q computed as on the dark branch whatever the lightness
hslToRgbDarkQ(h0, s0, l0, below) ==
    LET h == RDiv(h0, RInt(360))
        s == RDiv(s0, RInt(100))
        l == RDiv(l0, RInt(100))
        q == RMul(l, RAdd(RInt(1), s))
        p == RSub(RMul(RInt(2), l), q)
        r == IF s = RInt(0) THEN l ELSE hue2rgb(p, q, RAdd(h, <<1, 3>>))
        g == IF s = RInt(0) THEN l ELSE hue2rgb(p, q, h)
        b == IF s = RInt(0) THEN l ELSE hue2rgb(p, q, RSub(h, <<1, 3>>))
    IN  <<MathRound(RMul(r, RInt(255)), below[1]),
          MathRound(RMul(g, RInt(255)), below[2]),
          MathRound(RMul(b, RInt(255)), below[3])>>

\* hslToRgb on numbers (h in degrees, s and l in percent); below[k] is the
\* side of channel k at Math.round
hslToRgb(h0, s0, l0, below) ==
    LET h == RDiv(h0, RInt(360))
        s == RDiv(s0, RInt(100))
        l == RDiv(l0, RInt(100))
        q == IF RLt(l, <<1, 2>>)
             THEN RMul(l, RAdd(RInt(1), s))
             ELSE RSub(RAdd(l, s), RMul(l, s))
        p == RSub(RMul(RInt(2), l), q)
        r == IF s = RInt(0) THEN l ELSE hue2rgb(p, q, RAdd(h, <<1, 3>>))
        g == IF s = RInt(0) THEN l ELSE hue2rgb(p, q, h)
        b == IF s = RInt(0) THEN l ELSE hue2rgb(p, q, RSub(h, <<1, 3>>))
    IN  <<MathRound(RMul(r, RInt(255)), below[1]),
          MathRound(RMul(g, RInt(255)), below[2]),
          MathRound(RMul(b, RInt(255)), below[3])>>

\* normalizeColor's HSL triple without the lightness lift
normalizeHslNoLift(r, g, b, belowS) ==
    LET hsl == rgbToHsl(r, g, b)
        s == IF RLt(hsl[2], RInt(40)) \/ (hsl[2] = RInt(40) /\ belowS)
             THEN RMinOf(RInt(100), RAdd(RMul(hsl[2], <<7, 5>>), RInt(12)))
             ELSE hsl[2]
    IN  <<hsl[1], s, hsl[3]>>

\* the HSL triple normalizeColor hands to hslToRgb; belowS: the double of a
\* saturation of exactly 40 lies below 40
normalizeHsl(r, g, b, belowS) ==
    LET hsl == rgbToHsl(r, g, b)
        h == hsl[1]
        s == IF RLt(hsl[2], RInt(40)) \/ (hsl[2] = RInt(40) /\ belowS)
             THEN RMinOf(RInt(100), RAdd(RMul(hsl[2], <<7, 5>>), RInt(12)))
             ELSE hsl[2]
        l == IF RLt(hsl[3], RInt(25))
             THEN RAdd(RInt(25), RMul(RDiv(hsl[3], RInt(25)), RInt(10)))
             ELSE hsl[3]
    IN  <<h, s, l>>

\* normalizeColor; undefined channels make every comparison false and every
\* result NaN
normalizeColor(r, g, b, below) ==
    IF r = Undefined \/ g = Undefined \/ b = Undefined
    THEN <<NaN, NaN, NaN>>
    ELSE LET hsl == normalizeHsl(r, g, b, below[1])
         IN  hslToRgb(hsl[1], hsl[2], hsl[3], <<below[2], below[3], below[4]>>)

(***************************************************************************)
(* Program constants.  Coordinates and distances are in units of 1/SCALE.  *)
(***************************************************************************)
\* the normalized coordinate 1.0
SCALE == 10000

\* 0.12
MIN_DOT_DISTANCE == 1200

\* 0.08
EDGE_PADDING == 800

POSITION_RANGE == SCALE - (EDGE_PADDING * 2)

MAX_POSITION_ATTEMPTS == 50

(***************************************************************************)
(* The environment: Home Assistant's areas and lights, the images that can *)
(* be loaded, the values Math.random() and the mouse can produce.          *)
(***************************************************************************)
\* null: no image data, no dragged point
Null == "null"

\* getErrorMessage(e) for the error haFetch throws on an answer that is not ok
ErrorMessage == "API error: 500"

\* the colour-capable, non-group lights Home Assistant reports for an area
\* (the result of the map and filter of loadLights)
AreaLights(areaId) ==
    IF areaId = "living_room"
    THEN << [entity_id |-> "light.sofa", name |-> "Sofa"],
            [entity_id |-> "light.lamp", name |-> "light.lamp"] >>
    ELSE << [entity_id |-> "light.desk", name |-> "Desk"] >>

AreaIds == {"living_room", "office"}

\* the ImageData the canvas holds once the image at src is drawn: width,
\* height and the RGBA bytes, row by row
DecodedImage(src) ==
    IF src = "/presets/ocean.jpg"
    THEN [width |-> 2, height |-> 2,
          data |-> << 0, 0, 30, 255,       200, 200, 195, 255,
                      0, 0, 0, 255,        30, 60, 90, 255 >>]
    ELSE [width |-> 3, height |-> 1,
          data |-> << 255, 0, 0, 255,   64, 64, 64, 255,   12, 200, 255, 128 >>]

ImageSources == {"/presets/ocean.jpg", "data:my-photo.jpg"}

\* the scene name loadPreset / loadFile derive for an image source
SceneNameFor(src) ==
    IF src = "/presets/ocean.jpg" THEN "Ocean" ELSE "My photo"

\* one draw of getValidPosition takes two values of Math.random(), here in
\* hundredths (r stands for r/100, 0 <= r/100 < 1): two draws closer than
\* MIN_DOT_DISTANCE to each other and one far from both
RandomPairs == { <<10, 10>>, <<18, 10>>, <<99, 99>> }

\* the longest period of the sequences of draws tried
MaxTapePeriod == 2

\* the random source of one getValidPosition call: a sequence of draws that
\* repeats with a period of at most MaxTapePeriod
Tapes == UNION { [1..n -> RandomPairs] : n \in 1..MaxTapePeriod }

\* (clientX - rect.left) / rect.width and the same for y, in units of 1/SCALE:
\* the pointer left of / above the container, inside it, right of / below it
MouseXs == {-2500, 6000, 12500}
MouseYs == {2500, 12500}

(***************************************************************************)
(* State.                                                                  *)
(***************************************************************************)
VARIABLES
    connected,       \* useState connected
    lights,          \* useState lights: sequence of [entity_id, name]
    selectedLights,  \* useState selectedLights: set of entity ids
    loading,         \* image sources whose img.onload has not fired yet
    imageDataRef,    \* imageDataRef.current: Null or the source of the image drawn
    samples,         \* useState samples: sequence of SamplePoint
    dragging,        \* useState dragging: Null or a sample id
    status,          \* useState status: [type, msg]
    sceneName,       \* useState sceneName
    brightness,      \* useState brightness
    calls,           \* the createScene invocations: position and request in flight
    color,           \* the colour functions applied to one input (ColorSpec)
    positioning      \* one run of selected.map's position generation, step by
                     \* step (PositionSpec)

vars == <<connected, lights, selectedLights, loading, imageDataRef, samples,
          dragging, status, sceneName, brightness, calls, color, positioning>>

sessionVars == <<connected, lights, selectedLights, loading, imageDataRef,
                 samples, dragging, status, sceneName, brightness, calls>>

NoStatus == [type |-> "none", msg |-> ""]

IdleCall == [pc |-> "idle", log |-> <<>>]

NoColor == [op |-> "none"]

IdlePositioning == [pc |-> "idle"]

(***************************************************************************)
(* Pixel sampler.                                                          *)
(***************************************************************************)
\* data.data[idx]: the byte at a 0-based index, undefined outside the array
ByteAt(data, idx) ==
    IF idx >= 0 /\ idx < Len(data) THEN data[idx + 1] ELSE Undefined

\* the index getColorAt computes into the pixel array
pixelIndex(image, x, y) ==
    LET px == (x * image.width) \div SCALE
        py == (y * image.height) \div SCALE
    IN  (py * image.width + px) * 4

getColorAtImage(ref, x, y) ==
    IF ref = Null
    THEN <<128, 128, 128>>
    ELSE LET image == DecodedImage(ref)
             idx == pixelIndex(image, x, y)
         IN  <<ByteAt(image.data, idx), ByteAt(image.data, idx + 1),
               ByteAt(image.data, idx + 2)>>

getColorAt(x, y) == getColorAtImage(imageDataRef, x, y)

(***************************************************************************)
(* Position generator (the closure getValidPosition of randomizeSamples).  *)
(***************************************************************************)
\* a draw over the whole image: Math.random() with no padding
drawCoordinateUnpadded(r) == (r * SCALE) \div 100

\* EDGE_PADDING + Math.random() * POSITION_RANGE
drawCoordinate(r) == EDGE_PADDING + (r * POSITION_RANGE) \div 100

\* the draw made at attempt number n of a call whose random source is tape
drawAt(tape, n) ==
    LET pair == tape[(n % Len(tape)) + 1]
    IN  [x |-> drawCoordinate(pair[1]), y |-> drawCoordinate(pair[2])]

\* a distance test that rejects nothing
tooCloseNever(positions, c) == FALSE

\* positions.some(p => Math.hypot(p.x - x, p.y - y) < MIN_DOT_DISTANCE)
tooClose(positions, c) ==
    \E i \in 1..Len(positions) :
        (positions[i].x - c.x) * (positions[i].x - c.x)
          + (positions[i].y - c.y) * (positions[i].y - c.y)
        < MIN_DOT_DISTANCE * MIN_DOT_DISTANCE

\* the for loop from attempt number attempts on, and the draw after it
RECURSIVE positionFrom(_, _, _)
positionFrom(positions, tape, attempts) ==
    IF attempts < MAX_POSITION_ATTEMPTS
    THEN IF ~tooClose(positions, drawAt(tape, attempts))
         THEN drawAt(tape, attempts)
         ELSE positionFrom(positions, tape, attempts + 1)
    ELSE drawAt(tape, attempts)

getValidPosition(positions, tape) == positionFrom(positions, tape, 0)

(***************************************************************************)
(* Position generation step by step: the getValidPosition calls of one     *)
(* selected.map, each Math.random() pair drawn when the loop reaches it.   *)
(***************************************************************************)
\* the most lights selected in a run (selected.length)
MaxBatch == 3

\* the Math.random() pairs tried: those of RandomPairs and one far from all
\* of them, so that three positions can be mutually apart
PositionPairs == RandomPairs \cup { <<10, 99>> }

\* a getValidPosition call at the top of its for loop; candidate is the x, y
\* of the latest iteration
callLooping(attempts, candidate) ==
    [pc |-> "loop", attempts |-> attempts, candidate |-> candidate]

\* a getValidPosition call that has returned pos after the given number of
\* draws; how tells which return statement, rejected is the candidate of the
\* last loop iteration that did not return
callReturned(how, pos, draws, rejected) ==
    [pc |-> "returned", how |-> how, pos |-> pos, draws |-> draws,
     rejected |-> rejected]

\* one draw: x and y from two values of Math.random()
drawPair(pair) == [x |-> drawCoordinate(pair[1]), y |-> drawCoordinate(pair[2])]

\* selected.map starts on count lights: positions is empty and the first
\* getValidPosition call begins
startPositions(count) ==
    /\ positioning.pc \in {"idle", "done"}
    /\ positioning' = [pc |-> "map", count |-> count, positions |-> <<>>,
                       how |-> <<>>, call |-> callLooping(0, Null)]
    /\ UNCHANGED <<sessionVars, color>>

\* one iteration of the for loop: draw, test, return or count the attempt
loopDraw(pair) ==
    LET c == drawPair(pair)
        call == positioning.call
    IN  /\ positioning.pc = "map"
        /\ call.pc = "loop"
        /\ call.attempts < MAX_POSITION_ATTEMPTS
        /\ positioning' = [positioning EXCEPT !.call =
               IF ~tooClose(positioning.positions, c)
               THEN callReturned("loop", c, call.attempts + 1, call.candidate)
               ELSE callLooping(call.attempts + 1, c)]
        /\ UNCHANGED <<sessionVars, color>>

\* the return statement after the for loop
finalDraw(pair) ==
    LET call == positioning.call
    IN  /\ positioning.pc = "map"
        /\ call.pc = "loop"
        /\ ~(call.attempts < MAX_POSITION_ATTEMPTS)
        /\ positioning' = [positioning EXCEPT !.call =
               callReturned("fallback", drawPair(pair), call.attempts + 1,
                            call.candidate)]
        /\ UNCHANGED <<sessionVars, color>>

\* positions.push(pos), and the next light's call or the end of the map
pushPosition ==
    LET call == positioning.call
        positions == Append(positioning.positions, call.pos)
    IN  /\ positioning.pc = "map"
        /\ call.pc = "returned"
        /\ positioning' =
               IF Len(positions) < positioning.count
               THEN [positioning EXCEPT !.positions = positions,
                                        !.how = Append(@, call.how),
                                        !.call = callLooping(0, Null)]
               ELSE [pc |-> "done", count |-> positioning.count,
                     positions |-> positions,
                     how |-> Append(positioning.how, call.how)]
        /\ UNCHANGED <<sessionVars, color>>

(***************************************************************************)
(* Sampling session.                                                       *)
(***************************************************************************)
\* lights.filter(l => selectedLights.has(l.entity_id))
RECURSIVE filterSelected(_, _)
filterSelected(ls, sel) ==
    IF ls = <<>> THEN <<>>
    ELSE IF Head(ls).entity_id \in sel
         THEN <<Head(ls)>> \o filterSelected(Tail(ls), sel)
         ELSE filterSelected(Tail(ls), sel)

\* a SamplePoint that takes the colour of the image's first pixel
samplePointFirstPixel(light, pos) ==
    LET c == getColorAt(0, 0)
    IN  [id |-> light.entity_id, x |-> pos.x, y |-> pos.y,
         r |-> c[1], g |-> c[2], b |-> c[3], lightName |-> light.name]

\* one SamplePoint of selected.map(...): the light at a position, with the
\* colour of the image there
samplePoint(light, pos) ==
    LET c == getColorAt(pos.x, pos.y)
    IN  [id |-> light.entity_id, x |-> pos.x, y |-> pos.y,
         r |-> c[1], g |-> c[2], b |-> c[3], lightName |-> light.name]

\* the positions array after selected.map has run from its i-th element on:
\* tapes[i] is the random source of the i-th getValidPosition call
RECURSIVE pushPositions(_, _, _)
pushPositions(positions, tapes, i) ==
    IF i > Len(tapes) THEN positions
    ELSE pushPositions(Append(positions, getValidPosition(positions, tapes[i])),
                       tapes, i + 1)

\* the most lights an area has
MaxSelected == CHOOSE n \in 0..8 :
    /\ \A a \in AreaIds : Len(AreaLights(a)) <= n
    /\ \E a \in AreaIds : Len(AreaLights(a)) = n

\* the position batches a randomize of n lights can produce, one per choice
\* of random sources (the positions do not depend on the image)
positionBatches ==
    [n \in 0..MaxSelected |->
        { pushPositions(<<>>, tapes, 1) : tapes \in [1..n -> Tapes] }]

\* the batches of the random sources that repeat one draw that is not the
\* middle one (the scene specification's random input)
fewPositionBatches ==
    [n \in 0..MaxSelected |->
        { pushPositions(<<>>, tapes, 1) :
            tapes \in [1..n -> { <<<<10, 10>>>>, <<<<99, 99>>>> }] }]

\* selected.map(light => ...) given the positions getValidPosition returned
newSamples(selected, positions) ==
    [i \in 1..Len(selected) |-> samplePoint(selected[i], positions[i])]

\* a failing randomizeSamples that also clears the samples
randomizeSamplesErrorClearing ==
    /\ connected
    /\ filterSelected(lights, selectedLights) = <<>> \/ imageDataRef = Null
    /\ samples' = <<>>
    /\ status' = [type |-> "error",
                  msg |-> "Select lights and upload an image first"]
    /\ UNCHANGED <<connected, lights, selectedLights, loading, imageDataRef,
                   dragging, sceneName, brightness, calls, color, positioning>>

\* randomizeSamples, the precondition failing
randomizeSamplesError ==
    /\ connected
    /\ filterSelected(lights, selectedLights) = <<>> \/ imageDataRef = Null
    /\ status' = [type |-> "error",
                  msg |-> "Select lights and upload an image first"]
    /\ UNCHANGED <<connected, lights, selectedLights, loading, imageDataRef,
                   samples, dragging, sceneName, brightness, calls, color,
                   positioning>>

\* randomizeSamples, sampling one point per selected light
randomizeSamplesOk(positions) ==
    LET selected == filterSelected(lights, selectedLights)
    IN  /\ connected
        /\ ~(selected = <<>> \/ imageDataRef = Null)
        /\ Len(positions) = Len(selected)
        /\ samples' = newSamples(selected, positions)
        /\ status' = [type |-> "success",
                      msg |-> "Sampled " \o ToString(Len(selected)) \o " colors"]
        /\ UNCHANGED <<connected, lights, selectedLights, loading, imageDataRef,
                       dragging, sceneName, brightness, calls, color,
                       positioning>>

\* the Randomize Samples button; batches[n] are the position batches tried
\* for n selected lights
randomizeSamples(batches) ==
    \/ randomizeSamplesError
    \/ \E positions \in batches[Len(filterSelected(lights, selectedLights))] :
           randomizeSamplesOk(positions)

\* onMouseDown of a sample dot
handleMouseDown(sampleId) ==
    /\ \E i \in 1..Len(samples) : samples[i].id = sampleId
    /\ dragging' = sampleId
    /\ UNCHANGED <<connected, lights, selectedLights, loading, imageDataRef,
                   samples, status, sceneName, brightness, calls, color,
                   positioning>>

\* Math.max(0, Math.min(1, v))
clamp01(v) == IF v < 0 THEN 0 ELSE IF v > SCALE THEN SCALE ELSE v

\* prev.map without the test of the id: every point moves
repositionedAll(prev, id, x, y) ==
    LET c == getColorAt(x, y)
    IN  [i \in 1..Len(prev) |->
            [prev[i] EXCEPT !.x = x, !.y = y,
                            !.r = c[1], !.g = c[2], !.b = c[3]]]

\* prev.map(s => s.id === dragging ? { ...s, x, y, r, g, b } : s)
repositioned(prev, id, x, y) ==
    LET c == getColorAt(x, y)
    IN  [i \in 1..Len(prev) |->
            IF prev[i].id = id
            THEN [prev[i] EXCEPT !.x = x, !.y = y,
                                 !.r = c[1], !.g = c[2], !.b = c[3]]
            ELSE prev[i]]

\* the window's mousemove listener, attached while a point is dragged; mx
\* and my are the pointer's offsets as fractions of the container
handleMouseMove(mx, my) ==
    /\ dragging # Null
    /\ samples' = repositioned(samples, dragging, clamp01(mx), clamp01(my))
    /\ UNCHANGED <<connected, lights, selectedLights, loading, imageDataRef,
                   dragging, status, sceneName, brightness, calls, color,
                   positioning>>

\* the window's mouseup listener
handleMouseUp ==
    /\ dragging # Null
    /\ dragging' = Null
    /\ UNCHANGED <<connected, lights, selectedLights, loading, imageDataRef,
                   samples, status, sceneName, brightness, calls, color,
                   positioning>>

(***************************************************************************)
(* Connection, lights and images.                                          *)
(***************************************************************************)
\* connect, every request answered
connectOk ==
    /\ ~connected
    /\ connected' = TRUE
    /\ status' = [type |-> "success", msg |-> "Connected to Home Assistant"]
    /\ UNCHANGED <<lights, selectedLights, loading, imageDataRef, samples,
                   dragging, sceneName, brightness, calls, color, positioning>>

\* connect, a request failing
connectError ==
    /\ ~connected
    /\ status' = [type |-> "error", msg |-> "Connection failed: " \o ErrorMessage]
    /\ UNCHANGED <<connected, lights, selectedLights, loading, imageDataRef,
                   samples, dragging, sceneName, brightness, calls, color,
                   positioning>>

\* loadLights(''): the placeholder option of the area select
loadLightsNone ==
    /\ connected
    /\ lights' = <<>>
    /\ UNCHANGED <<connected, selectedLights, loading, imageDataRef, samples,
                   dragging, status, sceneName, brightness, calls, color,
                   positioning>>

\* loadLights(areaId), both requests answered: the state changes when the
\* second answer arrives
loadLightsOk(areaId) ==
    LET lightsData == AreaLights(areaId)
    IN  /\ connected
        /\ lights' = lightsData
        /\ selectedLights' =
               { lightsData[i].entity_id : i \in 1..Len(lightsData) }
        /\ UNCHANGED <<connected, loading, imageDataRef, samples, dragging,
                       status, sceneName, brightness, calls, color,
                       positioning>>

\* loadLights(areaId), a request failing
loadLightsError ==
    /\ connected
    /\ status' = [type |-> "error", msg |-> "Failed to load lights: " \o ErrorMessage]
    /\ UNCHANGED <<connected, lights, selectedLights, loading, imageDataRef,
                   samples, dragging, sceneName, brightness, calls, color,
                   positioning>>

\* the checkbox of a listed light
toggleLight(entityId) ==
    /\ connected
    /\ \E i \in 1..Len(lights) : lights[i].entity_id = entityId
    /\ selectedLights' = IF entityId \in selectedLights
                         THEN selectedLights \ {entityId}
                         ELSE selectedLights \cup {entityId}
    /\ UNCHANGED <<connected, lights, loading, imageDataRef, samples, dragging,
                   status, sceneName, brightness, calls, color, positioning>>

\* loadPreset / loadFile up to img.src = src: the scene name is set at once,
\* the image arrives later
loadImage(src) ==
    /\ connected
    /\ sceneName' = SceneNameFor(src)
    /\ loading' = loading \cup {src}
    /\ UNCHANGED <<connected, lights, selectedLights, imageDataRef, samples,
                   dragging, status, brightness, calls, color, positioning>>

\* img.onload without setSamples([])
imgOnloadKeepingSamples(src) ==
    /\ src \in loading
    /\ loading' = loading \ {src}
    /\ imageDataRef' = src
    /\ UNCHANGED <<connected, lights, selectedLights, samples, dragging, status,
                   sceneName, brightness, calls, color, positioning>>

\* img.onload of loadImageFromSrc
imgOnload(src) ==
    /\ src \in loading
    /\ loading' = loading \ {src}
    /\ imageDataRef' = src
    /\ samples' = <<>>
    /\ UNCHANGED <<connected, lights, selectedLights, dragging, status,
                   sceneName, brightness, calls, color, positioning>>

\* the timer of the status effect (STATUS_TIMEOUT_MS)
dismissStatus ==
    /\ status # NoStatus
    /\ status' = NoStatus
    /\ UNCHANGED <<connected, lights, selectedLights, loading, imageDataRef,
                   samples, dragging, sceneName, brightness, calls, color,
                   positioning>>

(***************************************************************************)
(* Scene payload builder and createScene.                                  *)
(***************************************************************************)
\* the brightness slider (min 1, max 255)
BrightnessValues == {128, 255}

SceneNames == {"Image Scene", "Ocean", "My photo"}

setBrightness(v) ==
    /\ connected
    /\ brightness' = v
    /\ UNCHANGED <<connected, lights, selectedLights, loading, imageDataRef,
                   samples, dragging, status, sceneName, calls, color,
                   positioning>>

setSceneName(name) ==
    /\ connected
    /\ sceneName' = name
    /\ UNCHANGED <<connected, lights, selectedLights, loading, imageDataRef,
                   samples, dragging, status, brightness, calls, color,
                   positioning>>

\* sceneName.toLowerCase().replace(/[^a-z0-9]+/g, '_') on the names used
sceneIdOf(name) ==
    CASE name = "Image Scene" -> "image_scene"
      [] name = "Ocean"       -> "ocean"
      [] name = "My photo"    -> "my_photo"

\* an entry that carries the sampled colour as it is
sceneEntityRaw(s, b, below) ==
    [state |-> "on", rgb_color |-> <<s.r, s.g, s.b>>, brightness |-> b]

\* { state: 'on', rgb_color: [nr, ng, nb], brightness } for one sample
sceneEntity(s, b, below) ==
    [state |-> "on", rgb_color |-> normalizeColor(s.r, s.g, s.b, below),
     brightness |-> b]

\* the entries one sample can get, over the sides the doubles can fall on
sceneEntities(s, b) == { sceneEntity(s, b, below) : below \in NormalizeSides }

\* entities[id] = entry
withEntity(entities, id, entry) ==
    [k \in DOMAIN entities \cup {id} |-> IF k = id THEN entry ELSE entities[k]]

\* the for loop over samples that fills entities, from index i on: the
\* objects it can end with, given those it can have reached
RECURSIVE fillEntities(_, _, _, _)
fillEntities(reached, ss, i, b) ==
    IF i > Len(ss) THEN reached
    ELSE fillEntities(
             { withEntity(entities, ss[i].id, entry) :
                 entities \in reached, entry \in sceneEntities(ss[i], b) },
             ss, i + 1, b)

\* the entities objects createScene can build from the samples
buildEntities(ss, b) == fillEntities({<<>>}, ss, 1, b)

\* the number of createScene invocations that can be in flight together
MaxCalls == 1

CallIds == 1..MaxCalls

\* createScene up to the first await: the create request is sent
createScene(c) ==
    /\ connected
    /\ Len(samples) > 0
    /\ calls[c].pc \in {"idle", "done"}
    /\ \E entities \in buildEntities(samples, brightness) :
       calls' = [calls EXCEPT ![c] =
           [pc |-> "create",
            sceneName |-> sceneName,
            sceneId |-> sceneIdOf(sceneName),
            log |-> <<"create sent">>,
            request |-> [endpoint |-> "/services/scene/create",
                         scene_id |-> sceneIdOf(sceneName),
                         snapshot_entities |-> <<>>,
                         entities |-> entities]]]
    /\ UNCHANGED <<connected, lights, selectedLights, loading, imageDataRef,
                   samples, dragging, status, sceneName, brightness, color,
                   positioning>>

\* the create request answered with resp.ok: the turn_on request is sent
createAnswered(c) ==
    /\ calls[c].pc = "create"
    /\ calls' = [calls EXCEPT ![c] =
           [pc |-> "turn_on",
            sceneName |-> calls[c].sceneName,
            sceneId |-> calls[c].sceneId,
            log |-> calls[c].log \o <<"create ok", "turn_on sent">>,
            request |-> [endpoint |-> "/services/scene/turn_on",
                         entity_id |-> "scene." \o calls[c].sceneId]]]
    /\ UNCHANGED <<connected, lights, selectedLights, loading, imageDataRef,
                   samples, dragging, status, sceneName, brightness, color,
                   positioning>>

\* the call's record once it has returned
returned(call, event) == [pc |-> "done", log |-> Append(call.log, event)]

\* a haFetch that does not throw on !resp.ok: after a failed create the
\* turn_on request is sent all the same
requestFailureIgnored(c) ==
    /\ calls[c].pc \in {"create", "turn_on"}
    /\ calls' = [calls EXCEPT ![c] =
           IF calls[c].pc = "create"
           THEN [pc |-> "turn_on",
                 sceneName |-> calls[c].sceneName,
                 sceneId |-> calls[c].sceneId,
                 log |-> calls[c].log \o <<"create failed", "turn_on sent">>,
                 request |-> [endpoint |-> "/services/scene/turn_on",
                              entity_id |-> "scene." \o calls[c].sceneId]]
           ELSE returned(calls[c], "turn_on failed")]
    /\ status' = IF calls[c].pc = "create"
                 THEN status
                 ELSE [type |-> "error",
                       msg |-> "Failed to create scene: " \o ErrorMessage]
    /\ UNCHANGED <<connected, lights, selectedLights, loading, imageDataRef,
                   samples, dragging, sceneName, brightness, color,
                   positioning>>

\* haFetch throws (the request fails or !resp.ok): the catch block
requestFailed(c) ==
    /\ calls[c].pc \in {"create", "turn_on"}
    /\ calls' = [calls EXCEPT ![c] = returned(calls[c], calls[c].pc \o " failed")]
    /\ status' = [type |-> "error",
                  msg |-> "Failed to create scene: " \o ErrorMessage]
    /\ UNCHANGED <<connected, lights, selectedLights, loading, imageDataRef,
                   samples, dragging, sceneName, brightness, color,
                   positioning>>

\* the turn_on request answered with resp.ok
turnOnAnswered(c) ==
    /\ calls[c].pc = "turn_on"
    /\ calls' = [calls EXCEPT ![c] = returned(calls[c], "turn_on ok")]
    /\ status' = [type |-> "success",
                  msg |-> "Scene \"" \o calls[c].sceneName
                          \o "\" created and activated! (scene."
                          \o calls[c].sceneId \o ")"]
    /\ UNCHANGED <<connected, lights, selectedLights, loading, imageDataRef,
                   samples, dragging, sceneName, brightness, color,
                   positioning>>

(***************************************************************************)
(* The application.                                                        *)
(***************************************************************************)
Init ==
    /\ connected = FALSE
    /\ lights = <<>>
    /\ selectedLights = {}
    /\ loading = {}
    /\ imageDataRef = Null
    /\ samples = <<>>
    /\ dragging = Null
    /\ status = NoStatus
    /\ sceneName = "Image Scene"
    /\ brightness = 255
    /\ calls = [c \in CallIds |-> IdleCall]
    /\ color = NoColor
    /\ positioning = IdlePositioning

Next ==
    \/ connectOk
    \/ connectError
    \/ loadLightsNone
    \/ \E areaId \in AreaIds : loadLightsOk(areaId)
    \/ loadLightsError
    \/ \E entityId \in selectedLights \cup
                       { lights[i].entity_id : i \in 1..Len(lights) } :
           toggleLight(entityId)
    \/ \E src \in ImageSources : loadImage(src)
    \/ \E src \in ImageSources : imgOnload(src)
    \/ randomizeSamples(positionBatches)
    \/ \E i \in 1..Len(samples) : handleMouseDown(samples[i].id)
    \/ \E mx \in MouseXs, my \in MouseYs : handleMouseMove(mx, my)
    \/ handleMouseUp
    \/ dismissStatus
    \/ \E v \in BrightnessValues : setBrightness(v)
    \/ \E name \in SceneNames : setSceneName(name)
    \/ \E c \in CallIds : createScene(c)
    \/ \E c \in CallIds : createAnswered(c)
    \/ \E c \in CallIds : requestFailed(c)
    \/ \E c \in CallIds : turnOnAnswered(c)

Spec == Init /\ [][Next]_vars

SessionNext ==
    \/ connectOk
    \/ connectError
    \/ loadLightsNone
    \/ \E areaId \in AreaIds : loadLightsOk(areaId)
    \/ loadLightsError
    \/ \E entityId \in selectedLights \cup
                       { lights[i].entity_id : i \in 1..Len(lights) } :
           toggleLight(entityId)
    \/ \E src \in ImageSources : loadImage(src)
    \/ \E src \in ImageSources : imgOnload(src)
    \/ randomizeSamples(positionBatches)
    \/ \E i \in 1..Len(samples) : handleMouseDown(samples[i].id)
    \/ \E mx \in MouseXs, my \in MouseYs : handleMouseMove(mx, my)
    \/ handleMouseUp
    \/ dismissStatus

SessionSpec == Init /\ [][SessionNext]_vars

\* The scene specification: lights, one image, randomize and createScene,
\* with fewer inputs (one area, one image, fewer random sources, no drag)
SceneNext ==
    \/ connectOk
    \/ loadLightsOk("living_room")
    \/ \E entityId \in { lights[i].entity_id : i \in 1..Len(lights) } :
           toggleLight(entityId)
    \/ loadImage("/presets/ocean.jpg")
    \/ imgOnload("/presets/ocean.jpg")
    \/ randomizeSamples(fewPositionBatches)
    \/ dismissStatus
    \/ \E v \in BrightnessValues : setBrightness(v)
    \/ \E name \in SceneNames : setSceneName(name)
    \/ \E c \in CallIds : createScene(c)
    \/ \E c \in CallIds : createAnswered(c)
    \/ \E c \in CallIds : requestFailed(c)
    \/ \E c \in CallIds : turnOnAnswered(c)

SceneSpec == Init /\ [][SceneNext]_vars

\* The position specification: runs of the position generation
PositionNext ==
    \/ \E count \in 1..MaxBatch : startPositions(count)
    \/ \E pair \in PositionPairs : loopDraw(pair)
    \/ \E pair \in PositionPairs : finalDraw(pair)
    \/ pushPosition

PositionSpec == Init /\ [][PositionNext]_vars

(***************************************************************************)
(* The colour specification: the colour functions applied to one RGB       *)
(* triple drawn from a set of channel values.                              *)
(***************************************************************************)
\* every channel value up to this one is tried
MaxDenseChannel == 10

\* the channel values tried: the dense low end and values across the range
ChannelValues ==
    (0..MaxDenseChannel) \cup
        {31, 63, 64, 100, 117, 127, 128, 160, 191, 200, 230, 254, 255}

ColorInit ==
    /\ connected = FALSE
    /\ lights = <<>>
    /\ selectedLights = {}
    /\ loading = {}
    /\ imageDataRef = Null
    /\ samples = <<>>
    /\ dragging = Null
    /\ status = NoStatus
    /\ sceneName = "Image Scene"
    /\ brightness = 255
    /\ calls = [c \in CallIds |-> IdleCall]
    /\ \E r \in ChannelValues, g \in ChannelValues, b \in ChannelValues :
           color = [op |-> "input", rgb |-> <<r, g, b>>]
    /\ positioning = IdlePositioning

applyRgbToHsl ==
    /\ color.op = "input"
    /\ color' = [op |-> "rgbToHsl", rgb |-> color.rgb,
                 hsl |-> rgbToHsl(color.rgb[1], color.rgb[2], color.rgb[3])]
    /\ UNCHANGED <<sessionVars, positioning>>

applyHslToRgb ==
    /\ color.op = "rgbToHsl"
    /\ \E below \in RoundSides :
           color' = [op |-> "hslToRgb", rgb |-> color.rgb,
                     out |-> hslToRgb(color.hsl[1], color.hsl[2], color.hsl[3],
                                      below)]
    /\ UNCHANGED <<sessionVars, positioning>>

applyNormalizeColor ==
    /\ color.op = "input"
    /\ \E below \in NormalizeSides :
           color' = [op |-> "normalizeColor", rgb |-> color.rgb,
                     out |-> normalizeColor(color.rgb[1], color.rgb[2],
                                            color.rgb[3], below)]
    /\ UNCHANGED <<sessionVars, positioning>>

ColorNext == applyRgbToHsl \/ applyHslToRgb \/ applyNormalizeColor

ColorSpec == ColorInit /\ [][ColorNext]_vars

\* the HSL lightness, in percent, of an integer RGB triple
lightnessOf(rgb) == rgbToHsl(rgb[1], rgb[2], rgb[3])[3]

(***************************************************************************)
(* Claims about the colour functions (ColorSpec).                          *)
(***************************************************************************)
\* C9: for every integer RGB triple, hslToRgb(rgbToHsl(r, g, b)) differs from
\* (r, g, b) by at most 1 in each channel.
C9_RoundTrip ==
    color.op = "hslToRgb" =>
        \A i \in 1..3 : Abs(color.out[i] - color.rgb[i]) <= 1

\* a chromatic light colour (the l >= 0.5 branch of q) has made the round trip
C9_Witness ==
    /\ color.op = "hslToRgb"
    /\ color.rgb = <<200, 230, 255>>
    /\ color.out = color.rgb

\* C10 as stated: for every integer RGB triple whose HSL lightness is below
\* 25%, the colour normalizeColor returns has HSL lightness of at least 25%.
C10_LiftAsStated ==
    (color.op = "normalizeColor" /\ RLt(lightnessOf(color.rgb), RInt(25))) =>
        ~RLt(lightnessOf(color.out), RInt(25))

\* C10 amended: for such a triple the lightness normalizeColor hands to
\* hslToRgb lies in [25, 35), and the colour returned, whose channels are
\* rounded to integers, has lightness of at least 127/510 = 24.9% (its
\* largest and smallest channel add up to 127 or more); black (0, 0, 0)
\* yields (71, 56, 56), of lightness 24.9%.
C10_Lift ==
    (color.op = "normalizeColor" /\ RLt(lightnessOf(color.rgb), RInt(25))) =>
        /\ \A belowS \in BOOLEAN :
              LET lifted == normalizeHsl(color.rgb[1], color.rgb[2],
                                         color.rgb[3], belowS)[3]
              IN  ~RLt(lifted, RInt(25)) /\ RLt(lifted, RInt(35))
        /\ ~RLt(lightnessOf(color.out), Rat(12700, 510))
        /\ color.rgb = <<0, 0, 0>> => color.out = <<71, 56, 56>>

\* the dark colour (10, 5, 5), of lightness about 3%, has been lifted
C10_Witness ==
    /\ color.op = "normalizeColor"
    /\ color.rgb = <<10, 5, 5>>
    /\ RLt(lightnessOf(color.rgb), RInt(4))
    /\ ~RLt(lightnessOf(color.out), RInt(25))

(***************************************************************************)
(* Claims about the sampling session (SessionSpec).                        *)
(***************************************************************************)
\* the identifiers of the selected lights, in light-list order
selectedIds ==
    LET sel == SelectSeq(lights, LAMBDA l : l.entity_id \in selectedLights)
    IN  [i \in 1..Len(sel) |-> sel[i].entity_id]

\* the colour of a sample point
rawColor(s) == <<s.r, s.g, s.b>>

\* the coordinates of the points of a sample set
positionsOf(ss) == [i \in 1..Len(ss) |-> [x |-> ss[i].x, y |-> ss[i].y]]

\* C1: a successful randomize replaces the whole sample set with exactly one
\* SamplePoint per selected light, in light-list order, whose id is the
\* light's identifier, whose coordinates lie in [0.08, 0.92] and whose rawColor
\* is the sampler's result there; no point of the previous set survives.
C1_RandomizeReplaces ==
    [][(/\ positionsOf(samples') \in positionBatches[Len(selectedIds)]
        /\ randomizeSamplesOk(positionsOf(samples'))) =>
              /\ selectedIds # <<>> /\ imageDataRef # Null
              /\ [i \in 1..Len(samples') |-> samples'[i].id] = selectedIds
              /\ \A i \in 1..Len(samples') :
                    /\ samples'[i].x >= EDGE_PADDING
                    /\ samples'[i].x <= SCALE - EDGE_PADDING
                    /\ samples'[i].y >= EDGE_PADDING
                    /\ samples'[i].y <= SCALE - EDGE_PADDING
                    /\ rawColor(samples'[i]) =
                         getColorAtImage(imageDataRef, samples'[i].x, samples'[i].y)
                    /\ \A k \in 1..3 : rawColor(samples'[i])[k] \in 0..255
              /\ \A i \in 1..Len(samples) :
                    samples[i].id \notin selectedLights =>
                        \A j \in 1..Len(samples') : samples'[j].id # samples[i].id
      ]_vars

\* with both living-room lights listed and only the second selected, a
\* randomize has produced the one point of that light
C1_Witness ==
    /\ Len(lights) = 2
    /\ selectedLights = {"light.lamp"}
    /\ status = [type |-> "success", msg |-> "Sampled 1 colors"]
    /\ Len(samples) = 1
    /\ samples[1].id = "light.lamp"
    /\ samples[1].x = drawCoordinate(99)

\* C2: when an image finishes loading the sample set becomes empty in the
\* same step, and a reposition issued afterwards, for any point id, leaves
\* the sample set empty.
C2_ResetOnLoad ==
    [][/\ (\E src \in ImageSources : imgOnload(src)) => samples' = <<>>
       /\ imageDataRef' # imageDataRef => samples' = <<>>
       /\ \A mx \in MouseXs, my \in MouseYs :
             (samples = <<>> /\ handleMouseMove(mx, my)) => samples' = <<>>
      ]_vars

\* a second image has replaced the first while a point was being dragged:
\* the drag is stale and the sample set is empty
C2_Witness ==
    /\ imageDataRef = "data:my-photo.jpg"
    /\ loading = {}
    /\ dragging = "light.sofa"
    /\ samples = <<>>

\* C3: a reposition changes only the coordinate and rawColor of the single
\* SamplePoint whose id matches; the other points, the matching point's id
\* and light name, and the number and order of points are unchanged; with no
\* matching point the sample set is unchanged and no error is reported.
C3_RepositionFrame ==
    [][\A mx \in MouseXs, my \in MouseYs :
          (dragging # Null /\ dragging' = dragging /\ handleMouseMove(mx, my)) =>
              /\ Len(samples') = Len(samples)
              /\ Cardinality({ i \in 1..Len(samples) : samples[i].id = dragging }) <= 1
              /\ status' = status
              /\ \A i \in 1..Len(samples) :
                    IF samples[i].id = dragging
                    THEN /\ samples'[i].id = samples[i].id
                         /\ samples'[i].lightName = samples[i].lightName
                         /\ samples'[i].x = clamp01(mx)
                         /\ samples'[i].y = clamp01(my)
                         /\ DOMAIN samples'[i] = DOMAIN samples[i]
                    ELSE samples'[i] = samples[i]
      ]_vars

\* the second of two points has been dragged to the left edge; the first is
\* where randomize put it
C3_Witness ==
    /\ Len(samples) = 2
    /\ dragging = samples[2].id
    /\ samples[2].x = 0
    /\ samples[2].lightName = "light.lamp"
    /\ samples[1].x >= EDGE_PADDING

\* C4: randomize with no selected light or no image loaded reports an error
\* status and leaves the set of SamplePoints as it was.
C4_RandomizeError ==
    [][/\ randomizeSamplesError =>
             /\ status'.type = "error"
             /\ samples' = samples
       /\ (selectedIds = <<>> \/ imageDataRef = Null) =>
             ~randomizeSamplesOk(positionsOf(samples'))
      ]_vars

\* randomize has failed for want of a selected light, and the points sampled
\* before are still there
C4_Witness ==
    /\ status = [type |-> "error",
                 msg |-> "Select lights and upload an image first"]
    /\ selectedLights = {}
    /\ Len(samples) = 2

\* C5: in every reachable state each SamplePoint's rawColor is the pixel
\* sampler applied to the point's coordinate on the image currently loaded.
C5_ColorFollowsCoordinate ==
    \A i \in 1..Len(samples) :
        rawColor(samples[i]) =
            getColorAtImage(imageDataRef, samples[i].x, samples[i].y)

\* on the second image, one point dragged to the left edge and one left
\* where randomize put it
C5_Witness ==
    /\ imageDataRef = "data:my-photo.jpg"
    /\ Len(samples) = 2
    /\ samples[1].x = 0
    /\ rawColor(samples[1]) = <<255, 0, 0>>
    /\ samples[2].x = drawCoordinate(99)
    /\ rawColor(samples[2]) = <<12, 200, 255>>

\* C6: for every coordinate in [0,1]x[0,1], x = 1 and y = 1 included, the
\* sampler reads a pixel inside the loaded buffer (column < width, row <
\* height), so every SamplePoint's rawColor is a triple of integers in 0..255.
C6_SamplerInBounds ==
    \A i \in 1..Len(samples) :
        /\ \A k \in 1..3 : rawColor(samples[i])[k] \in 0..255
        /\ imageDataRef # Null =>
              LET image == DecodedImage(imageDataRef)
              IN  /\ (samples[i].x * image.width) \div SCALE < image.width
                  /\ (samples[i].y * image.height) \div SCALE < image.height

(***************************************************************************)
(* Claims about createScene (SceneSpec).                                   *)
(***************************************************************************)
\* C7: the payload built from the SamplePoints has exactly one entry per
\* SamplePoint, keyed by its light identifier, with state "on", rgb_color =
\* normalizeColor(rawColor) (on one of the sides the doubles can fall on) and
\* the shared brightness; building does not modify the SamplePoints, and no
\* SamplePoint gives an empty mapping.
C7_Payload ==
    [][/\ \A c \in CallIds :
             (calls'[c].pc = "create" /\ createScene(c)) =>
                 LET entities == calls'[c].request.entities
                 IN  /\ DOMAIN entities = { samples[i].id : i \in 1..Len(samples) }
                     /\ Cardinality(DOMAIN entities) = Len(samples)
                     /\ \A i \in 1..Len(samples) :
                           \E below \in NormalizeSides :
                               entities[samples[i].id] =
                                   [state |-> "on",
                                    rgb_color |-> normalizeColor(samples[i].r,
                                        samples[i].g, samples[i].b, below),
                                    brightness |-> brightness]
                     /\ samples' = samples
       /\ \A entities \in buildEntities(<<>>, brightness) : DOMAIN entities = {}
       /\ buildEntities(<<>>, brightness) # {}
      ]_vars

\* a create request is in flight with two entries at brightness 128: the
\* normalized colours of the pixels (0, 0, 30) and (30, 60, 90)
C7_Witness ==
    \E c \in CallIds :
        /\ calls[c].pc = "create"
        /\ DOMAIN calls[c].request.entities = {"light.sofa", "light.lamp"}
        /\ rawColor(samples[1]) = <<0, 0, 30>>
        /\ calls[c].request.entities["light.sofa"] =
               [state |-> "on", rgb_color |-> <<0, 0, 139>>, brightness |-> 128]
        /\ rawColor(samples[2]) = <<30, 60, 90>>
        /\ calls[c].request.entities["light.lamp"] =
               [state |-> "on", rgb_color |-> <<44, 88, 132>>, brightness |-> 128]

\* the request sequences createScene can have gone through
sceneLogs ==
    { <<>>,
      <<"create sent">>,
      <<"create sent", "create failed">>,
      <<"create sent", "create ok", "turn_on sent">>,
      <<"create sent", "create ok", "turn_on sent", "turn_on failed">>,
      <<"create sent", "create ok", "turn_on sent", "turn_on ok">> }

\* C8: createScene sends the create request first and the turn_on request,
\* for the same scene id, only after the create request has succeeded; when
\* the create request fails no turn_on request is sent; the success status is
\* shown only when both requests succeeded, otherwise an error status.
C8_CreateThenActivate ==
    [][\A c \in CallIds :
          /\ calls'[c].log \in sceneLogs
          /\ calls'[c].pc = "create" =>
                /\ calls'[c].log = <<"create sent">>
                /\ calls'[c].request.endpoint = "/services/scene/create"
          /\ calls'[c].pc = "turn_on" =>
                /\ calls'[c].log = <<"create sent", "create ok", "turn_on sent">>
                /\ calls'[c].request.endpoint = "/services/scene/turn_on"
          /\ (calls'[c].pc = "turn_on" /\ calls[c].pc # "turn_on") =>
                /\ calls[c].pc = "create"
                /\ calls'[c].request.entity_id
                       = "scene." \o calls[c].request.scene_id
          /\ (calls[c].pc \in {"create", "turn_on"} /\ calls'[c].pc = "done") =>
                IF calls'[c].log[Len(calls'[c].log)] = "turn_on ok"
                THEN /\ status'.type = "success"
                     /\ calls[c].pc = "turn_on"
                ELSE status'.type = "error"
          /\ (status' # status /\ status'.type = "success"
                /\ status'.msg \notin {"Connected to Home Assistant"}
                                 \cup { "Sampled " \o ToString(n) \o " colors" : n \in 0..MaxSelected }) =>
                \E d \in CallIds :
                    /\ calls[d].pc = "turn_on"
                    /\ calls'[d].log[Len(calls'[d].log)] = "turn_on ok"
      ]_vars

\* a scene named in the session has been created and activated
C8_Witness ==
    \E c \in CallIds :
        /\ calls[c].pc = "done"
        /\ calls[c].log = <<"create sent", "create ok", "turn_on sent", "turn_on ok">>
        /\ status = [type |-> "success",
                     msg |-> "Scene \"My photo\" created and activated! (scene.my_photo)"]

(***************************************************************************)
(* Claims about the position generation (PositionSpec).                    *)
(***************************************************************************)
\* the positions are at least MIN_DOT_DISTANCE apart (Math.hypot >= 0.12)
apart(p, c) ==
    (p.x - c.x) * (p.x - c.x) + (p.y - c.y) * (p.y - c.y)
        >= MIN_DOT_DISTANCE * MIN_DOT_DISTANCE

\* C11: a position accepted before the attempt bound is exhausted is at
\* least minDistance (0.12) from every position accepted earlier in the
\* batch; so a batch in which no slot used the fallback has every pair of
\* positions at least minDistance apart.
C11_AcceptedApart ==
    /\ (positioning.pc = "map" /\ positioning.call.pc = "returned"
           /\ positioning.call.how = "loop") =>
          \A i \in 1..Len(positioning.positions) :
              apart(positioning.positions[i], positioning.call.pos)
    /\ (positioning.pc \in {"map", "done"}
           /\ \A i \in 1..Len(positioning.how) : positioning.how[i] = "loop") =>
          \A i \in 1..Len(positioning.positions) :
              \A j \in 1..(i - 1) :
                  apart(positioning.positions[j], positioning.positions[i])

\* the second call has returned from its loop at the third draw, after two
\* candidates too close to the first position
C11_Witness ==
    /\ positioning.pc = "map"
    /\ positioning.positions = <<drawPair(<<10, 10>>)>>
    /\ positioning.call =
           callReturned("loop", drawPair(<<99, 99>>), 3, drawPair(<<18, 10>>))

\* C12: position generation ends with exactly count positions; each slot
\* draws at most 50 candidates, and when all of them are rejected the
\* position accepted is the last of them: no further draw is made.
C12_FallbackIsLastCandidate ==
    /\ positioning.pc = "done" =>
          Len(positioning.positions) = positioning.count
    /\ positioning.pc = "map" =>
          /\ Len(positioning.positions) < positioning.count
          /\ positioning.call.pc = "loop" =>
                positioning.call.attempts <= MAX_POSITION_ATTEMPTS
          /\ positioning.call.pc = "returned" =>
                /\ positioning.call.draws <= MAX_POSITION_ATTEMPTS
                /\ positioning.call.how = "fallback" =>
                      positioning.call.pos = positioning.call.rejected

(***************************************************************************)
(* Claim about the lights of the scene payload (SceneSpec).                *)
(***************************************************************************)
\* C13: every light identifier that is a key of the payload createScene
\* sends is, at the moment the scene is created, in the light list and
\* selected.
C13_PayloadKeysSelected ==
    [][\A c \in CallIds :
          (calls'[c].pc = "create" /\ calls[c].pc # "create") =>
              DOMAIN calls'[c].request.entities \subseteq
                  { lights[i].entity_id : i \in 1..Len(lights) }
                      \cap selectedLights
      ]_vars

=============================================================================
